---- MODULE Spec2Model ----
(***************************************************************************)
(* Millennium Dawn validation tools: tools/validation/validate_variables.py *)
(* and tools/validation/validate_scripted_localisation.py.                  *)
(*                                                                          *)
(* File contents, paths, symbols and probe strings are TLA+ strings, that   *)
(* is sequences of characters: the substring tests, the regular-expression  *)
(* scans and the case folding of the code are computed character by         *)
(* character on them.                                                       *)
(***************************************************************************)
EXTENDS Integers, Sequences, FiniteSets, TLC

VARIABLES
    tool,           \* which script runs: "variables" or "scripted_localisation"
    args,           \* parsed command line: [path, strict, output, no_color, staged]
    mod_files,      \* the tree under the root, in glob enumeration order: Seq of [path, text, readable]
    git_staged,     \* `git diff --cached --name-only`: [ok, names], names relative paths
    write_ok,       \* whether open(output_file, "w") and the write succeed
    hash_order,     \* the order in which this process iterates a set of str: Seq of names
    pc,             \* position of main(): "main", "banner", "checks", "summary", "exit", "exited"
    step,           \* index of the next check of run_all_validations
    validator,      \* "none" before Validator(...) is constructed, else "constructed"
    staged_files,   \* Validator.staged_files: Seq of paths, << >> for None
    errors_found,   \* Validator.errors_found
    output_lines,   \* Validator.output_lines
    console,        \* messages handed to logging by Validator.log: Seq of [level, msg]
    results,        \* the results list of each check run so far: Seq of [check, items]
    files_read,     \* the paths the extractions have opened so far (a set)
    logged,         \* messages handed to logging outside Validator.log: Seq of [level, msg]
    out_file,       \* the --output file: [written (number of writes), text]
    exit_code,      \* -1 while running, else the code given to sys.exit
    run,            \* 1 for the first invocation, 2 for the repeated one
    prev,           \* report of the first invocation: [lines, console, errors, code]
    probe           \* harness of the pure functions: [op, pc, ...]

vars == << tool, args, mod_files, git_staged, write_ok, hash_order, pc, step, validator,
           staged_files, errors_found, output_lines, console, results, files_read,
           logged, out_file, exit_code, run, prev, probe >>

progVars == << tool, args, mod_files, git_staged, write_ok, hash_order, pc, step, validator,
               staged_files, errors_found, output_lines, console, results, files_read,
               logged, out_file, exit_code, run, prev >>

(***************************************************************************)
(* Bounds of the model                                                     *)
(***************************************************************************)
\* Longest symbol list (or mapping) handed to the false-positive filter harness.
MaxListLen == 2
\* Most statement lines in a drawn corpus, all files together.
MaxStmts == 2
\* the longest list of false-positive rules handed to the filter
MaxRules == 2

(***************************************************************************)
(* Strings                                                                 *)
(***************************************************************************)
Range(s) == { s[i] : i \in DOMAIN s }

Min(S) == CHOOSE m \in S : \A n \in S : m <= n

\* the least element of a set of positive indices, 0 when the set is empty
MinOr0(S) == IF S = {} THEN 0 ELSE Min(S)
Max0(S) == IF S = {} THEN 0 ELSE CHOOSE m \in S : \A n \in S : n <= m

\* a local variable: `value` is computed once and named by the parameter of In
With(value, In(_)) == In(value)

\* s[i] of a str (a one-character string)
CharAt(s, i) == SubSeq(s, i, i)

\* `p in s` of two str
Contains(s, p) ==
    \E i \in 0..(Len(s) - Len(p)) : SubSeq(s, i + 1, i + Len(p)) = p

\* s.startswith(p), s.endswith(p)
StartsWith(s, p) == Len(p) <= Len(s) /\ SubSeq(s, 1, Len(p)) = p
EndsWith(s, p) == Len(p) <= Len(s) /\ SubSeq(s, Len(s) - Len(p) + 1, Len(s)) = p

\* first index >= from at which p occurs in s, 0 when there is none
IndexFrom(s, p, from) ==
    MinOr0({ i \in from..(Len(s) - Len(p) + 1) : SubSeq(s, i, i + Len(p) - 1) = p })

UpperChars == "ABCDEFGHIJKLMNOPQRSTUVWXYZ"
LowerChars == "abcdefghijklmnopqrstuvwxyz"
DigitChars == "0123456789"

LowerChar(c) ==
    LET k == IndexFrom(UpperChars, c, 1)
    IN  IF k = 0 THEN c ELSE CharAt(LowerChars, k)

\* str.lower()
RECURSIVE Lower(_)
Lower(s) == IF s = "" THEN "" ELSE LowerChar(Head(s)) \o Lower(Tail(s))

\* s.replace(a, b) for one-character a
RECURSIVE ReplaceChar(_, _, _)
ReplaceChar(s, a, b) ==
    IF s = "" THEN ""
    ELSE (IF Head(s) = a THEN b ELSE Head(s)) \o ReplaceChar(Tail(s), a, b)

\* lines joined by blanks instead of newlines
RECURSIVE JoinWithBlanks(_)
JoinWithBlanks(lines) ==
    IF lines = << >> THEN ""
    ELSE IF Len(lines) = 1 THEN lines[1]
    ELSE lines[1] \o " " \o JoinWithBlanks(Tail(lines))

\* "\n".join(lines)
RECURSIVE JoinLines(_)
JoinLines(lines) ==
    IF lines = << >> THEN ""
    ELSE IF Len(lines) = 1 THEN lines[1]
    ELSE lines[1] \o "\n" \o JoinLines(Tail(lines))

\* the lines a text file iterates over (each without its newline)
RECURSIVE SplitLines(_)
SplitLines(text) ==
    IF text = "" THEN << >>
    ELSE LET n == IndexFrom(text, "\n", 1)
         IN  IF n = 0 THEN << text >>
             ELSE << SubSeq(text, 1, n - 1) >> \o SplitLines(SubSeq(text, n + 1, Len(text)))

\* os.path.basename
RECURSIVE Basename(_)
Basename(path) ==
    LET n == IndexFrom(path, "/", 1)
    IN  IF n = 0 THEN path ELSE Basename(SubSeq(path, n + 1, Len(path)))

\* concatenation of a sequence of sequences
RECURSIVE Flatten(_)
Flatten(ss) == IF ss = << >> THEN << >> ELSE Head(ss) \o Flatten(Tail(ss))

(***************************************************************************)
(* The file tree                                                           *)
(***************************************************************************)
\* Validator.mod_path: the resolved --path with a trailing "/"
mod_path == "/mod/"

IGNORED_DIRS == << "gfx", "tools", "resources", "docs", "map" >>

\* a skip test on the bare name followed by "/", wherever it occurs
should_skip_file_any_occurrence(filename) ==
    \E k \in 1..Len(IGNORED_DIRS) :
        Contains(ReplaceChar(filename, "\\", "/"), IGNORED_DIRS[k] \o "/")

should_skip_file(filename) ==
    LET normalized_path == ReplaceChar(filename, "\\", "/")
    IN  \E k \in 1..Len(IGNORED_DIRS) :
            \/ Contains(normalized_path, "/" \o IGNORED_DIRS[k] \o "/")
            \/ StartsWith(normalized_path, IGNORED_DIRS[k] \o "/")

\* index in mod_files of the file at `path`, 0 when the tree holds none
FileIndex(files, path) == MinOr0({ i \in 1..Len(files) : files[i].path = path })

\* a read that never raises: an undecodable file yields its text all the same
ReadFileNeverRaises(files, path) ==
    LET i == FileIndex(files, path)
    IN  IF i = 0 THEN [ok |-> FALSE, text |-> ""]
        ELSE [ok |-> TRUE, text |-> files[i].text]

\* what open(path).read() yields: [ok, text]; a missing or undecodable file raises
ReadFile(files, path) ==
    LET i == FileIndex(files, path)
    IN  IF i = 0 \/ ~files[i].readable THEN [ok |-> FALSE, text |-> ""]
        ELSE [ok |-> TRUE, text |-> files[i].text]

\* FileOpener.open_text_file: the text, "" when reading raised
open_text_file(files, filename, lowercase) ==
    LET r == ReadFile(files, filename)
    IN  IF ~r.ok THEN ""
        ELSE IF lowercase THEN Lower(r.text) ELSE r.text

\* glob.iglob(mod_path + "**/*<ext>", recursive=True): paths in enumeration order
GlobExt(files, ext) ==
    LET idx == SelectSeq([i \in 1..Len(files) |-> i],
                         LAMBDA i : StartsWith(files[i].path, mod_path)
                                    /\ EndsWith(files[i].path, ext))
    IN  [k \in 1..Len(idx) |-> files[idx[k]].path]

\* glob.glob(<dir>/*<ext>): the files directly inside dir (dir ends with "/")
GlobDir(files, dir, ext) ==
    LET idx == SelectSeq([i \in 1..Len(files) |-> i],
                         LAMBDA i : /\ StartsWith(files[i].path, dir)
                                    /\ EndsWith(files[i].path, ext)
                                    /\ ~Contains(SubSeq(files[i].path, Len(dir) + 1,
                                                        Len(files[i].path)), "/"))
    IN  [k \in 1..Len(idx) |-> files[idx[k]].path]

\* os.path.relpath(full_path, mod_path) of a path below mod_path
RelPath(full_path) == SubSeq(full_path, Len(mod_path) + 1, Len(full_path))

find_line_number(files, filename, pattern, lowercase) ==
    LET r == ReadFile(files, filename)
        lines == SplitLines(r.text)
        search_pattern == IF lowercase THEN Lower(pattern) ELSE pattern
    IN  IF ~r.ok THEN 0
        ELSE MinOr0({ n \in 1..Len(lines) :
                        Contains(IF lowercase THEN Lower(lines[n]) ELSE lines[n],
                                 search_pattern) })

(***************************************************************************)
(* DataCleaner                                                             *)
(*                                                                         *)
(* A list is [shape |-> "list", val |-> Seq(str)]; a dict is                *)
(* [shape |-> "dict", val |-> Seq([k, v])] in insertion order.              *)
(***************************************************************************)
AsList(seq) == [shape |-> "list", val |-> seq]
AsDict(pairs) == [shape |-> "dict", val |-> pairs]

\* a filter whose rules match whole symbols only
clear_false_positives_exact_match(input_iter, false_positives) ==
    IF Len(false_positives) > 0
    THEN [input_iter EXCEPT !.val =
            SelectSeq(input_iter.val,
                      LAMBDA i : (IF input_iter.shape = "dict" THEN i.k ELSE i)
                                 \notin Range(false_positives))]
    ELSE input_iter

clear_false_positives_partial_match(input_iter, false_positives) ==
    IF input_iter.shape = "dict"
    THEN IF Len(false_positives) > 0
         THEN LET skip_list == { input_iter.val[n].k : n \in
                                   { m \in 1..Len(input_iter.val) :
                                       \E j \in 1..Len(false_positives) :
                                          Contains(input_iter.val[m].k, false_positives[j]) } }
              IN  [input_iter EXCEPT !.val = SelectSeq(input_iter.val,
                                                       LAMBDA e : e.k \notin skip_list)]
         ELSE input_iter
    ELSE IF Len(false_positives) > 0
         THEN LET skip_list == { input_iter.val[n] : n \in
                                   { m \in 1..Len(input_iter.val) :
                                       \E j \in 1..Len(false_positives) :
                                          Contains(input_iter.val[m], false_positives[j]) } }
              IN  [input_iter EXCEPT !.val = SelectSeq(input_iter.val,
                                                       LAMBDA i : i \notin skip_list)]
         ELSE input_iter

\* a filter that cuts a symbol short at the first rule it holds instead of
\* dropping the symbol
FilterListCutting(symbols, false_positives) ==
    [i \in 1..Len(symbols) |->
        LET at == { IndexFrom(symbols[i], false_positives[j], 1) :
                      j \in 1..Len(false_positives) } \ {0}
        IN  IF at = {} THEN symbols[i] ELSE SubSeq(symbols[i], 1, Min(at) - 1)]

\* the list call of the checks: clear_false_positives_partial_match(list, tuple(fp))
FilterList(symbols, false_positives) ==
    clear_false_positives_partial_match(AsList(symbols), false_positives).val

(***************************************************************************)
(* Regular-expression scans (re.findall), scanning left to right and       *)
(* resuming after each match                                               *)
(***************************************************************************)
\* a character class: [^...] when neg, [...] otherwise
ClassNot(chars) == [neg |-> TRUE, set |-> chars]
ClassOf(chars) == [neg |-> FALSE, set |-> chars]
InClass(c, cls) == IF cls.neg THEN c \notin cls.set ELSE c \in cls.set

\* index of the last character of the longest run of class characters that
\* starts at `start`; start - 1 when the run is empty
RunEnd(text, start, cls) ==
    LET bad == { i \in start..Len(text) : ~InClass(CharAt(text, i), cls) }
    IN  IF bad = {} THEN Len(text) ELSE Min(bad) - 1

\* re.findall(kw + "(<cls>+)", text)
RECURSIVE FindAllFrom(_, _, _, _)
FindAllFrom(text, kw, cls, from) ==
    With(IndexFrom(text, kw, from), LAMBDA i :
        IF i = 0 THEN << >>
        ELSE LET s == i + Len(kw)
                 e == RunEnd(text, s, cls)
             IN  IF e < s THEN FindAllFrom(text, kw, cls, i + 1)
                 ELSE << SubSeq(text, s, e) >> \o FindAllFrom(text, kw, cls, e + 1))

re_findall(kw, cls, text) == FindAllFrom(text, kw, cls, 1)

\* [^ \t\n]  [^ \t\n\}]  [^ \n\t\#"]  [^ \n\t"]
FlagToken == ClassNot({" ", "\t", "\n"})
BracedFlagToken == ClassNot({" ", "\t", "\n", "}"})
TargetToken == ClassNot({" ", "\n", "\t", "#", "\""})
HasTargetToken == ClassNot({" ", "\n", "\t", "\""})

\* the match of `.*?flag = ([^ \t\n\}]+).*?\}` (DOTALL) right after an opening
\* `<key> = {` that ends at index from - 1: [cap, end], end = 0 when none
BracedMatchAt(text, from) ==
    With(MinOr0({ j \in from..(Len(text) - 6) :
                    /\ SubSeq(text, j, j + 6) = "flag = "
                    /\ RunEnd(text, j + 7, BracedFlagToken) >= j + 7
                    /\ IndexFrom(text, "}", RunEnd(text, j + 7, BracedFlagToken) + 1) # 0 }),
         LAMBDA j :
             IF j = 0 THEN [cap |-> "", end |-> 0]
             ELSE LET e == RunEnd(text, j + 7, BracedFlagToken)
                  IN  [cap |-> SubSeq(text, j + 7, e), end |-> IndexFrom(text, "}", e + 1)])

\* re.findall(<open> + r"\{.*?flag = ([^ \t\n\}]+).*?\}", text, MULTILINE | DOTALL)
\* for the alternatives `opens` of <open> (all of one length)
RECURSIVE FindAllBracedFrom(_, _, _)
FindAllBracedFrom(text, opens, from) ==
    LET i == MinOr0({ IndexFrom(text, o, from) : o \in opens } \ {0})
    IN  IF i = 0 THEN << >>
        ELSE With(BracedMatchAt(text, i + Len(CHOOSE o \in opens : TRUE)), LAMBDA m :
                 IF m.end = 0 THEN FindAllBracedFrom(text, opens, i + 1)
                 ELSE << m.cap >> \o FindAllBracedFrom(text, opens, m.end + 1))

re_findall_braced(opens, text) == FindAllBracedFrom(text, opens, 1)

(***************************************************************************)
(* Extraction. An extraction returns its matches in order, each with the   *)
(* basename assigned to paths[match] at that moment: Seq of [sym, base].   *)
(***************************************************************************)
Tag(matches, filename) ==
    [i \in 1..Len(matches) |-> [sym |-> matches[i], base |-> Basename(filename)]]

\* the returned list
Symbols(occ) == [i \in 1..Len(occ) |-> occ[i].sym]

\* the returned paths dict: each assignment paths[match] = basename overwrites
PathsKeys(occ) == { occ[i].sym : i \in 1..Len(occ) }
PathsGet(occ, sym) ==
    occ[CHOOSE i \in 1..Len(occ) :
            /\ occ[i].sym = sym
            /\ \A j \in 1..Len(occ) : occ[j].sym = sym => j <= i].base

\* files_to_scan of the flag and event-target extractions
TxtFilesToScan(files, staged) ==
    IF staged # << >>
    THEN SelectSeq(staged, LAMBDA f : EndsWith(f, ".txt"))
    ELSE GlobExt(files, ".txt")

\* the files an extraction opens
Opened(scan) == { scan[i] : i \in { k \in 1..Len(scan) : ~should_skip_file(scan[k]) } }

FlagTypes == { "country", "state", "global" }

get_all_used_flags(files, lowercase, flag_type, staged) ==
    LET PerFile(filename) ==
            IF should_skip_file(filename) THEN << >>
            ELSE With(open_text_file(files, filename, lowercase), LAMBDA text_file :
                     IF \/ Contains(text_file, "has_" \o flag_type \o "_flag =")
                        \/ Contains(text_file, "modify_" \o flag_type \o "_flag =")
                     THEN Tag(re_findall("has_" \o flag_type \o "_flag = ", FlagToken, text_file)
                              \o re_findall_braced({ c \o "_" \o flag_type \o "_flag = {" :
                                                       c \in {"y", "|", "s"} }, text_file),
                              filename)
                     ELSE << >>)
        scan == TxtFilesToScan(files, staged)
    IN  Flatten([k \in 1..Len(scan) |-> PerFile(scan[k])])

get_all_set_flags(files, lowercase, flag_type, staged) ==
    LET PerFile(filename) ==
            IF should_skip_file(filename) THEN << >>
            ELSE With(open_text_file(files, filename, lowercase), LAMBDA text_file :
                     IF Contains(text_file, "set_" \o flag_type \o "_flag =")
                     THEN Tag(re_findall("set_" \o flag_type \o "_flag = ", FlagToken, text_file)
                              \o re_findall_braced({ "set_" \o flag_type \o "_flag = {" },
                                                   text_file),
                              filename)
                     ELSE << >>)
        scan == TxtFilesToScan(files, staged)
    IN  Flatten([k \in 1..Len(scan) |-> PerFile(scan[k])])

get_all_cleared_flags(files, lowercase, flag_type, staged) ==
    LET PerFile(filename) ==
            IF should_skip_file(filename) THEN << >>
            ELSE With(open_text_file(files, filename, lowercase), LAMBDA text_file :
                     IF Contains(text_file, "clr_" \o flag_type \o "_flag =")
                     THEN Tag(re_findall("clr_" \o flag_type \o "_flag = ", FlagToken, text_file),
                              filename)
                     ELSE << >>)
        scan == TxtFilesToScan(files, staged)
    IN  Flatten([k \in 1..Len(scan) |-> PerFile(scan[k])])

get_all_used_targets(files, lowercase, staged) ==
    LET PerFile(filename) ==
            IF should_skip_file(filename) THEN << >>
            ELSE With(open_text_file(files, filename, lowercase), LAMBDA text_file :
                     IF Contains(filename, "tag_aliases")
                     THEN IF Contains(text_file, "global_event_target =")
                          THEN Tag(re_findall("global_event_target = ", TargetToken, text_file),
                                   filename)
                          ELSE << >>
                     ELSE (IF Contains(text_file, "event_target:")
                           THEN Tag(re_findall("event_target:", TargetToken, text_file),
                                    filename)
                           ELSE << >>)
                          \o
                          (IF Contains(text_file, "has_event_target =")
                           THEN Tag(re_findall("has_event_target = ", HasTargetToken, text_file),
                                    filename)
                           ELSE << >>))
        scan == TxtFilesToScan(files, staged)
    IN  Flatten([k \in 1..Len(scan) |-> PerFile(scan[k])])

get_all_set_targets(files, lowercase, staged) ==
    LET PerFile(filename) ==
            IF should_skip_file(filename) \/ Contains(filename, "tag_aliases") THEN << >>
            ELSE With(open_text_file(files, filename, lowercase), LAMBDA text_file :
                     (IF Contains(text_file, "save_global_event_target_as =")
                      THEN Tag(re_findall("save_global_event_target_as = ", TargetToken,
                                          text_file), filename)
                      ELSE << >>)
                     \o
                     (IF Contains(text_file, "save_event_target_as =")
                      THEN Tag(re_findall("save_event_target_as = ", TargetToken, text_file),
                               filename)
                      ELSE << >>))
        scan == TxtFilesToScan(files, staged)
    IN  Flatten([k \in 1..Len(scan) |-> PerFile(scan[k])])

get_all_cleared_targets(files, lowercase, staged) ==
    LET PerFile(filename) ==
            IF should_skip_file(filename) THEN << >>
            ELSE With(open_text_file(files, filename, lowercase), LAMBDA text_file :
                     IF Contains(text_file, "clear_global_event_target =")
                     THEN Tag(re_findall("clear_global_event_target = ", TargetToken,
                                         text_file), filename)
                     ELSE << >>)
        scan == TxtFilesToScan(files, staged)
    IN  Flatten([k \in 1..Len(scan) |-> PerFile(scan[k])])

(***************************************************************************)
(* validate_variables.Validator: locating and the six checks.              *)
(* A check's results list is a Seq of [sym, file, line].                   *)
(***************************************************************************)
\* Validator.get_full_path: the first file of that basename holding item, "" for None
get_full_path(files, basename, item) ==
    LET all == GlobExt(files, ".txt")
        hit == MinOr0({ k \in 1..Len(all) :
                        /\ Basename(all[k]) = basename
                        /\ ~should_skip_file(all[k])
                        /\ ReadFile(files, all[k]).ok
                        /\ Contains(ReadFile(files, all[k]).text, item) })
    IN  IF hit = 0 THEN "" ELSE all[hit]

\* a loop body that records the lower-cased symbol, as the checks of the
\* scripted-localisation script do
LocatedResultLowerCased(files, occ, sym, item) ==
    With(get_full_path(files, PathsGet(occ, sym), item), LAMBDA full_path :
        IF full_path # ""
        THEN << [sym |-> Lower(sym), file |-> RelPath(full_path),
                 line |-> find_line_number(files, full_path, item, FALSE)] >>
        ELSE << >>)

\* the loop body shared by the flag checks and the cleared-target check:
\* locate with one probe string, drop the candidate when no file is found
LocatedResult(files, occ, sym, item) ==
    With(get_full_path(files, PathsGet(occ, sym), item), LAMBDA full_path :
        IF full_path # ""
        THEN << [sym |-> sym, file |-> RelPath(full_path),
                 line |-> find_line_number(files, full_path, item, FALSE)] >>
        ELSE << >>)

\* the loop body of the missing and unused event-target checks: two probe strings
LocatedResult2(files, occ, sym, item1, item2) ==
    With(get_full_path(files, PathsGet(occ, sym), item1), LAMBDA first :
    With(IF first # "" THEN first ELSE get_full_path(files, PathsGet(occ, sym), item2),
         LAMBDA full_path :
             IF full_path # ""
             THEN With(find_line_number(files, full_path, item1, FALSE), LAMBDA line1 :
                      << [sym |-> sym, file |-> RelPath(full_path),
                          line |-> IF line1 = 0
                                   THEN find_line_number(files, full_path, item2, FALSE)
                                   ELSE line1] >>)
             ELSE << >>))

validate_cleared_flags(files, staged, flag_type, false_positives) ==
    With(get_all_cleared_flags(files, FALSE, flag_type, staged), LAMBDA occ :
        LET set_flags == Symbols(get_all_set_flags(files, FALSE, flag_type, staged))
            cleared_flags == FilterList(Symbols(occ), false_positives)
        IN  Flatten([i \in 1..Len(cleared_flags) |->
                IF cleared_flags[i] \notin Range(set_flags)
                THEN LocatedResult(files, occ, cleared_flags[i],
                                   "clr_" \o flag_type \o "_flag = " \o cleared_flags[i])
                ELSE << >>]))

validate_missing_flags(files, staged, flag_type, false_positives) ==
    With(get_all_used_flags(files, FALSE, flag_type, staged), LAMBDA occ :
        LET set_flags == Symbols(get_all_set_flags(files, FALSE, flag_type, staged))
            used_flags == FilterList(Symbols(occ), false_positives)
        IN  Flatten([i \in 1..Len(used_flags) |->
                IF used_flags[i] \notin Range(set_flags)
                THEN LocatedResult(files, occ, used_flags[i],
                                   "has_" \o flag_type \o "_flag = " \o used_flags[i])
                ELSE << >>]))

validate_unused_flags(files, staged, flag_type, false_positives) ==
    With(get_all_set_flags(files, FALSE, flag_type, staged), LAMBDA occ :
        LET used_flags == Symbols(get_all_used_flags(files, FALSE, flag_type, staged))
            set_flags == FilterList(Symbols(occ), false_positives)
        IN  Flatten([i \in 1..Len(set_flags) |->
                IF set_flags[i] \notin Range(used_flags)
                THEN LocatedResult(files, occ, set_flags[i],
                                   "set_" \o flag_type \o "_flag = " \o set_flags[i])
                ELSE << >>]))

validate_cleared_event_targets(files, staged) ==
    With(get_all_cleared_targets(files, FALSE, staged), LAMBDA occ :
        LET set_targets == Symbols(get_all_set_targets(files, FALSE, staged))
            cleared_targets == Symbols(occ)
        IN  Flatten([i \in 1..Len(cleared_targets) |->
                IF cleared_targets[i] \notin Range(set_targets)
                THEN LocatedResult(files, occ, cleared_targets[i],
                                   "clear_global_event_target = " \o cleared_targets[i])
                ELSE << >>]))

FALSE_POSITIVES_MISSING_TARGETS == << "." >>

validate_missing_event_targets(files, staged) ==
    With(get_all_used_targets(files, FALSE, staged), LAMBDA occ :
        LET set_targets == Symbols(get_all_set_targets(files, FALSE, staged))
            used_targets == FilterList(Symbols(occ), FALSE_POSITIVES_MISSING_TARGETS)
        IN  Flatten([i \in 1..Len(used_targets) |->
                IF used_targets[i] \notin Range(set_targets)
                THEN LocatedResult2(files, occ, used_targets[i],
                                    "event_target:" \o used_targets[i],
                                    "has_event_target = " \o used_targets[i])
                ELSE << >>]))

FALSE_POSITIVES_UNUSED_TARGETS == << "wca_usa_floyd_olson", "wca_usa_al_smith", "target_value" >>

\* yml_files_to_scan of the unused-event-target check
YmlFilesToScan(files, staged) ==
    IF staged # << >>
    THEN SelectSeq(staged, LAMBDA f : EndsWith(f, ".yml"))
    ELSE GlobExt(files, ".yml")

\* the loc-function scan: targets_used_in_loc after `scan[1..n]`, in append order
RECURSIVE TargetsUsedInLoc(_, _, _, _)
TargetsUsedInLoc(files, scan, n, potential_results) ==
    IF n = 0 THEN << >>
    ELSE With(TargetsUsedInLoc(files, scan, n - 1, potential_results), LAMBDA before :
         With(open_text_file(files, scan[n], TRUE), LAMBDA text_file :
             LET filename == scan[n]
                 not_encountered_targets ==
                     SelectSeq(potential_results, LAMBDA t : t \notin Range(before))
             IN  IF should_skip_file(filename) \/ ~Contains(text_file, ".get") THEN before
                 ELSE before \o SelectSeq(not_encountered_targets,
                          LAMBDA target :
                              \/ Contains(text_file, "[" \o target \o ".getname")
                              \/ Contains(text_file, "[" \o target \o ".getadjective"))))

validate_unused_event_targets(files, staged) ==
    With(get_all_set_targets(files, FALSE, staged), LAMBDA occ :
    With(LET used_targets == Symbols(get_all_used_targets(files, FALSE, staged))
             set_targets == FilterList(Symbols(occ), FALSE_POSITIVES_UNUSED_TARGETS)
         IN  SelectSeq(set_targets, LAMBDA t : t \notin Range(used_targets)),
         LAMBDA potential_results :
             LET yml == YmlFilesToScan(files, staged)
                 targets_used_in_loc ==
                     TargetsUsedInLoc(files, yml, Len(yml), potential_results)
             IN  Flatten([i \in 1..Len(potential_results) |->
                     IF potential_results[i] \notin Range(targets_used_in_loc)
                     THEN LocatedResult2(files, occ, potential_results[i],
                              "save_event_target_as = " \o potential_results[i],
                              "save_global_event_target_as = " \o potential_results[i])
                     ELSE << >>])))

(***************************************************************************)
(* validate_scripted_localisation: extraction                              *)
(***************************************************************************)
Whitespace == ClassOf({" ", "\t", "\n", "\r", "\f"})
WordChars ==
    ClassOf({ CharAt(LowerChars, i) : i \in 1..26 } \cup { CharAt(UpperChars, i) : i \in 1..26 }
            \cup { CharAt(DigitChars, i) : i \in 1..10 } \cup { "_" })

\* re.findall(r"name\s*=\s*([a-zA-Z_0-9]+)", text)
RECURSIVE FindAllNamesFrom(_, _)
FindAllNamesFrom(text, from) ==
    With(IndexFrom(text, "name", from), LAMBDA i :
        IF i = 0 THEN << >>
        ELSE LET eq == RunEnd(text, i + 4, Whitespace) + 1
                 s == RunEnd(text, eq + 1, Whitespace) + 1
                 e == RunEnd(text, s, WordChars)
             IN  IF eq > Len(text) \/ CharAt(text, eq) # "=" \/ e < s
                 THEN FindAllNamesFrom(text, i + 1)
                 ELSE << SubSeq(text, s, e) >> \o FindAllNamesFrom(text, e + 1))

\* os.path.join(mod_path, "common", "scripted_localisation") + "/"
ScriptedLocDir == mod_path \o "common/scripted_localisation/"

\* files_to_scan of get_all_defined_localisations
DefinedLocFilesToScan(files, staged) ==
    IF staged # << >>
    THEN SelectSeq(staged, LAMBDA f : Contains(f, "scripted_localisation")
                                      /\ EndsWith(f, ".txt"))
    ELSE GlobDir(files, ScriptedLocDir, ".txt")

get_all_defined_localisations(files, lowercase, staged) ==
    LET PerFile(filename) ==
            IF should_skip_file(filename)
               \/ Contains(filename, "00_scripted_localisation_FR_loc")
            THEN << >>
            ELSE With(open_text_file(files, filename, lowercase), LAMBDA text_file :
                     IF Contains(text_file, "defined_text") /\ Contains(text_file, "name =")
                     THEN Tag(FindAllNamesFrom(text_file, 1), filename)
                     ELSE << >>)
        scan == DefinedLocFilesToScan(files, staged)
    IN  Flatten([k \in 1..Len(scan) |-> PerFile(scan[k])])

\* files_to_scan of get_all_used_localisations
UsedLocFilesToScan(files, staged) ==
    IF staged # << >>
    THEN SelectSeq(staged, LAMBDA f : \/ EndsWith(f, ".gui")
                                      \/ EndsWith(f, ".yml")
                                      \/ (EndsWith(f, ".txt") /\ Contains(f, "scripted_guis")))
    ELSE GlobExt(files, ".gui") \o GlobExt(files, ".yml")
         \o GlobDir(files, mod_path \o "common/scripted_guis/", ".txt")

\* a used list drawn from the texts themselves: every bracketed word of the
\* scanned files, whether or not the name is defined
get_all_used_localisations_bracketed(files, defined_names, lowercase, staged) ==
    LET scan == UsedLocFilesToScan(files, staged)
        PerFile(filename) ==
            IF should_skip_file(filename) \/ Contains(filename, "scripted_localisation")
            THEN << >>
            ELSE Tag(re_findall("[", WordChars, open_text_file(files, filename, lowercase)),
                     filename)
    IN  Flatten([k \in 1..Len(scan) |-> PerFile(scan[k])])

\* the scan loop after scan[1..n]; search_names is the set in its iteration order
RECURSIVE UsedLocsUpTo(_, _, _, _, _)
UsedLocsUpTo(files, scan, n, search_names, lowercase) ==
    IF n = 0 THEN << >>
    ELSE With(UsedLocsUpTo(files, scan, n - 1, search_names, lowercase), LAMBDA before :
             LET filename == scan[n]
                 text_file == open_text_file(files, filename, lowercase)
             IN  IF should_skip_file(filename) \/ Contains(filename, "scripted_localisation")
                 THEN before
                 ELSE before \o Tag(SelectSeq(search_names,
                                        LAMBDA name : /\ name \notin Range(Symbols(before))
                                                      /\ Contains(text_file, name)),
                                    filename))

\* defined_names: the set of names as the sequence its iteration yields
get_all_used_localisations(files, defined_names, lowercase, staged) ==
    LET low == [i \in 1..Len(defined_names) |-> Lower(defined_names[i])]
        search_names ==
            IF lowercase
            THEN SelectSeq([i \in 1..Len(low) |-> [n |-> low[i], i |-> i]],
                           LAMBDA e : \A j \in 1..(e.i - 1) : low[j] # e.n)
            ELSE [i \in 1..Len(defined_names) |-> [n |-> defined_names[i], i |-> i]]
        scan == UsedLocFilesToScan(files, staged)
    IN  UsedLocsUpTo(files, scan, Len(scan),
                     [i \in 1..Len(search_names) |-> search_names[i].n], lowercase)

\* iteration order of set(names) in a process whose str hashing orders names as `order`
SetIter(order, names) == SelectSeq(order, LAMBDA n : n \in names)

LowerAll(names) == [i \in 1..Len(names) |-> Lower(names[i])]

(***************************************************************************)
(* validate_scripted_localisation.Validator: locating and the two checks   *)
(***************************************************************************)
\* Validator.get_full_path of this script: .txt then .gui, compared lower-cased
get_full_path_loc(files, basename, item) ==
    LET all == GlobExt(files, ".txt") \o GlobExt(files, ".gui")
        hit == MinOr0({ k \in 1..Len(all) :
                        /\ Basename(all[k]) = basename
                        /\ ~should_skip_file(all[k])
                        /\ ReadFile(files, all[k]).ok
                        /\ Contains(Lower(ReadFile(files, all[k]).text), Lower(item)) })
    IN  IF hit = 0 THEN "" ELSE all[hit]

\* the results list after the candidates 1..n of the missing check
RECURSIVE MissingLocUpTo(_, _, _, _, _, _)
MissingLocUpTo(files, occ, used_locs_lower, defined_locs_lower, used_locs, n) ==
    IF n = 0 THEN << >>
    ELSE With(MissingLocUpTo(files, occ, used_locs_lower, defined_locs_lower,
                             used_locs, n - 1), LAMBDA res :
             LET loc == used_locs_lower[n]
                 reported == { res[k].sym : k \in 1..Len(res) }
                 original_loc == used_locs[n]
                 basename == IF original_loc \in PathsKeys(occ)
                             THEN PathsGet(occ, original_loc)
                             ELSE IF loc \in PathsKeys(occ) THEN PathsGet(occ, loc)
                             ELSE "unknown"
             IN  With(get_full_path_loc(files, basename, loc), LAMBDA full_path :
                     IF /\ loc \notin Range(defined_locs_lower)
                        /\ loc \notin reported
                        /\ full_path # ""
                     THEN Append(res, [sym |-> loc, file |-> RelPath(full_path),
                                       line |-> find_line_number(files, full_path, loc,
                                                                 TRUE)])
                     ELSE res))

validate_missing_scripted_localisations(files, staged, order, false_positives) ==
    With(Symbols(get_all_defined_localisations(files, FALSE, staged)), LAMBDA defined_locs :
    With(get_all_used_localisations(files, SetIter(order, Range(defined_locs)), FALSE,
                                    staged), LAMBDA occ :
        LET used_locs == Symbols(occ)
            defined_locs_lower == LowerAll(defined_locs)
            used_locs_lower == FilterList(LowerAll(used_locs), false_positives)
        IN  MissingLocUpTo(files, occ, used_locs_lower, defined_locs_lower, used_locs,
                           Len(used_locs_lower))))

\* the results list after the candidates 1..n of the unused check
RECURSIVE UnusedLocUpTo(_, _, _, _, _, _)
UnusedLocUpTo(files, occ, defined_locs_lower, used_locs_lower, defined_locs, n) ==
    IF n = 0 THEN << >>
    ELSE With(UnusedLocUpTo(files, occ, defined_locs_lower, used_locs_lower,
                            defined_locs, n - 1), LAMBDA res :
             LET loc == defined_locs_lower[n]
                 reported == { res[k].sym : k \in 1..Len(res) }
                 original_loc == defined_locs[n]
                 basename == IF original_loc \in PathsKeys(occ)
                             THEN PathsGet(occ, original_loc)
                             ELSE IF loc \in PathsKeys(occ) THEN PathsGet(occ, loc)
                             ELSE "unknown"
                 pattern == ScriptedLocDir \o basename
                 \* os.path.exists(pattern), else the glob of the same directory
                 full_path == IF FileIndex(files, pattern) # 0 THEN pattern ELSE ""
             IN  IF /\ loc \notin Range(used_locs_lower)
                    /\ loc \notin reported
                    /\ full_path # ""
                 THEN Append(res, [sym |-> loc, file |-> RelPath(full_path),
                                   line |-> find_line_number(files, full_path,
                                                             "name = " \o loc, TRUE)])
                 ELSE res)

\* the candidate list, were it drawn from the set of names instead of the list
UnusedLocCandidatesOfSet(defined_locs, defined_names_set, false_positives) ==
    FilterList(LowerAll(defined_names_set), false_positives)

\* the candidate list the unused check walks
UnusedLocCandidates(defined_locs, defined_names_set, false_positives) ==
    FilterList(LowerAll(defined_locs), false_positives)

validate_unused_scripted_localisations(files, staged, order, false_positives) ==
    With(get_all_defined_localisations(files, FALSE, staged), LAMBDA occ :
        LET defined_locs == Symbols(occ)
            defined_names_set == SetIter(order, Range(defined_locs))
            used_locs == Symbols(get_all_used_localisations(files, defined_names_set,
                                                            FALSE, staged))
            used_locs_lower == LowerAll(used_locs)
            defined_locs_lower == UnusedLocCandidates(defined_locs, defined_names_set,
                                                      false_positives)
        IN  UnusedLocUpTo(files, occ, defined_locs_lower, used_locs_lower, defined_locs,
                          Len(defined_locs_lower)))

(***************************************************************************)
(* The report sink. The escape character is written "^" (caret notation:   *)
(* "^[" is ESC "["), so Colors.RED is "^[91m".                              *)
(***************************************************************************)
ESC == "^"
Colors == [HEADER |-> ESC \o "[95m", BLUE |-> ESC \o "[94m", CYAN |-> ESC \o "[96m",
           GREEN |-> ESC \o "[92m", YELLOW |-> ESC \o "[93m", RED |-> ESC \o "[91m",
           ENDC |-> ESC \o "[0m", BOLD |-> ESC \o "[1m", UNDERLINE |-> ESC \o "[4m"]

\* re.sub(r"\033\[[0-9;]+m", "", message)
RECURSIVE StripAnsi(_)
StripAnsi(message) ==
    LET i == IndexFrom(message, ESC \o "[", 1)
        e == RunEnd(message, i + 2,
                    ClassOf({ CharAt(DigitChars, d) : d \in 1..10 } \cup { ";" }))
    IN  IF i = 0 THEN message
        ELSE IF e >= i + 2 /\ e < Len(message) /\ CharAt(message, e + 1) = "m"
        THEN SubSeq(message, 1, i - 1) \o StripAnsi(SubSeq(message, e + 2, Len(message)))
        ELSE SubSeq(message, 1, i) \o StripAnsi(SubSeq(message, i + 1, Len(message)))

\* Validator.log(message, level): what goes to logging and what is stored
log(use_colors, message, level) ==
    [console |-> [level |-> level,
                  msg |-> IF use_colors THEN message ELSE StripAnsi(message)],
     file_msg |-> StripAnsi(message)]

\* the effect of a handler's log calls, in order, on console and output_lines
LogAll(calls) ==
    /\ console' = console \o
          [i \in 1..Len(calls) |-> log(~args.no_color, calls[i].msg, calls[i].level).console]
    /\ output_lines' = output_lines \o
          [i \in 1..Len(calls) |-> log(~args.no_color, calls[i].msg, calls[i].level).file_msg]

Info(msg) == [msg |-> msg, level |-> "info"]
Error(msg) == [msg |-> msg, level |-> "error"]
Warning(msg) == [msg |-> msg, level |-> "warning"]

RECURSIVE Repeat(_, _)
Repeat(c, n) == IF n = 0 THEN "" ELSE c \o Repeat(c, n - 1)
RuleWidth == 80
Rule(c) == Repeat(c, RuleWidth)

\* f"{Colors.X if self.use_colors else ''}text{Colors.ENDC if self.use_colors else ''}"
Paint(use_colors, color, text) ==
    IF use_colors THEN color \o text \o Colors.ENDC ELSE text

\* a defect line that prints the line number even when it is 0
DefectLineAlwaysNumbered(use_colors, result) ==
    "  " \o Paint(use_colors, Colors.YELLOW, result.file \o ":" \o ToString(result.line))
    \o " - " \o result.sym

\* one defect line of a check section
DefectLine(use_colors, result) ==
    IF result.line > 0
    THEN "  " \o Paint(use_colors, Colors.YELLOW, result.file \o ":" \o ToString(result.line))
         \o " - " \o result.sym
    ELSE "  " \o Paint(use_colors, Colors.YELLOW, result.file) \o " - " \o result.sym

\* the log calls of one check: the three title lines, then either the error
\* header, `notes`, the defect lines and the issue count, or the no-issue line
Section(use_colors, title, header, notes, ok_text, res) ==
    << Info("\n" \o Rule("=")), Info(Paint(use_colors, Colors.CYAN, title)), Info(Rule("=")) >>
    \o (IF Len(res) > 0
        THEN << Error(Paint(use_colors, Colors.RED, header)) >>
             \o notes
             \o [i \in 1..Len(res) |-> Error(DefectLine(use_colors, res[i]))]
             \o << Error(Paint(use_colors, Colors.RED,
                               ToString(Len(res)) \o " issues found")) >>
        ELSE << Info(Paint(use_colors, Colors.GREEN, ok_text)) >>)

\* the first log calls of run_all_validations
Banner(use_colors, name, staged_only, output_file) ==
    << Info("\n" \o Rule("#")), Info(Paint(use_colors, Colors.BOLD, name)),
       Info(Rule("#")), Info("Mod path: " \o mod_path) >>
    \o (IF staged_only
        THEN << Info(Paint(use_colors, Colors.CYAN, "Mode: Git staged files only")) >>
        ELSE << >>)
    \o (IF output_file # "" THEN << Info("Output file: " \o output_file) >> ELSE << >>)

\* the final summary of run_all_validations
Summary(use_colors, errors) ==
    << Info("\n" \o Rule("#")),
       IF errors = 0
       THEN Info(Paint(use_colors, Colors.GREEN, "VALIDATION COMPLETE - NO ISSUES FOUND"))
       ELSE Error(Paint(use_colors, Colors.RED,
                        "VALIDATION COMPLETE - " \o ToString(errors) \o " TOTAL ISSUES FOUND")),
       Info(Rule("#") \o "\n") >>

(***************************************************************************)
(* run_all_validations: the false-positive lists and the order of checks.  *)
(* The check-mark and cross glyphs that open the no-issue and summary      *)
(* messages are left out of the message texts (the module is ASCII).       *)
(***************************************************************************)
FALSE_POSITIVES_GENERIC == << "@", "[", "{" >>
FALSE_POSITIVES_COUNTRY ==
    << "@", "[", "{", "ire_got_guarantee", "ire_rejected_guarantee", "nfa_rebelled",
       "ire_alliance_refused", "nfa_previously_rebelled", "rom_deal", "rus_can_core",
       "sent_volunteers", "china_refused_alliance", "_QMV_voted", "recognised_opponent_",
       "rival_government_", "_QMV", "trade_agreement", "mutual_investment_treaty_",
       "libya_casablanca_accords_signed_by_", "_EP_agenda", "initiated_blockade_" >>
FALSE_POSITIVES_GLOBAL ==
    << "@", "[", "{", "kr_current_version", "_QMV_result", "_QMV_voted" >>
FALSE_POSITIVES_COUNTRY_UNUSED ==
    << "@", "[", "{", "saf_antagonise_", "default_puppet", "_QMV_voted", "_EP_approval",
       "recognised_opponent_" >>

\* FALSE_POSITIVES of the scripted-localisation script (its two non-ASCII
\* rules, the section and pound signs, cannot match the ASCII texts drawn here)
FALSE_POSITIVES_LOC ==
    << "root.getname", "this.getname", "from.getname", "prev.getname", "root.getadjective",
       "this.getadjective", "from.getadjective", "getdatetext", "getyear", "getmonth",
       "getday", "tt", "_tt", "_desc", "_title", "button", "gfx_", "tooltip", "$",
       "var:", "@", "[" >>

\* the calls run_all_validations makes, in order
VariablesPlan ==
    << [kind |-> "cleared", universe |-> "country", fp |-> FALSE_POSITIVES_COUNTRY],
       [kind |-> "missing", universe |-> "country", fp |-> FALSE_POSITIVES_COUNTRY],
       [kind |-> "unused",  universe |-> "country", fp |-> FALSE_POSITIVES_COUNTRY_UNUSED],
       [kind |-> "cleared", universe |-> "global", fp |-> FALSE_POSITIVES_GENERIC],
       [kind |-> "missing", universe |-> "global", fp |-> FALSE_POSITIVES_GENERIC],
       [kind |-> "unused",  universe |-> "global", fp |-> FALSE_POSITIVES_GLOBAL],
       [kind |-> "cleared", universe |-> "state", fp |-> FALSE_POSITIVES_GENERIC],
       [kind |-> "missing", universe |-> "state", fp |-> FALSE_POSITIVES_GENERIC],
       [kind |-> "unused",  universe |-> "state", fp |-> FALSE_POSITIVES_GENERIC],
       [kind |-> "cleared", universe |-> "event_target", fp |-> << >>],
       [kind |-> "missing", universe |-> "event_target", fp |-> FALSE_POSITIVES_MISSING_TARGETS],
       [kind |-> "unused",  universe |-> "event_target", fp |-> FALSE_POSITIVES_UNUSED_TARGETS] >>

ScriptedLocPlan ==
    << [kind |-> "missing", universe |-> "scripted_localisation", fp |-> FALSE_POSITIVES_LOC],
       [kind |-> "unused",  universe |-> "scripted_localisation", fp |-> FALSE_POSITIVES_LOC] >>

Plan == IF tool = "variables" THEN VariablesPlan ELSE ScriptedLocPlan

(***************************************************************************)
(* main(), Validator.__init__ and the steps of run_all_validations         *)
(***************************************************************************)
\* Path.exists() and Path.is_dir() of the resolved --path
PathExists(files, path) ==
    \/ path \o "/" = mod_path
    \/ \E i \in 1..Len(files) : files[i].path = path \/ StartsWith(files[i].path, path \o "/")
PathIsDir(files, path) ==
    \/ path \o "/" = mod_path
    \/ \E i \in 1..Len(files) : StartsWith(files[i].path, path \o "/")

\* get_staged_files: the .txt/.yml (and, for scripted localisation, .gui) names
\* git prints, joined to mod_path; << >> (None) when git fails or none is left
get_staged_files(which, git) ==
    IF ~git.ok THEN << >>
    ELSE LET kept == SelectSeq(git.names,
                        LAMBDA f : /\ f # ""
                                   /\ \/ EndsWith(f, ".txt")
                                      \/ EndsWith(f, ".yml")
                                      \/ (which = "scripted_localisation" /\ EndsWith(f, ".gui")))
         IN  [i \in 1..Len(kept) |-> mod_path \o kept[i]]

\* sys.exit code at the end of main()
ExitStatusLenient(strict, errors) == IF errors > 0 THEN 1 ELSE 0

ExitStatus(strict, errors) == IF strict /\ errors > 0 THEN 1 ELSE 0

\* the path checks that guard the construction of the Validator
PathAcceptedNoDirCheck(files, path) == PathExists(files, path)

PathAccepted(files, path) == PathExists(files, path) /\ PathIsDir(files, path)

\* main() up to and including Validator(...): a bad path exits 1 at once
Main ==
    /\ pc = "main"
    /\ IF ~PathAccepted(mod_files, args.path)
       THEN /\ logged' = Append(logged,
                                IF ~PathExists(mod_files, args.path)
                                THEN Error("Error: Path does not exist: " \o args.path)
                                ELSE Error("Error: Path is not a directory: " \o args.path))
            /\ exit_code' = 1
            /\ pc' = "exited"
            /\ UNCHANGED << validator, staged_files, errors_found, output_lines >>
       ELSE /\ validator' = "constructed"
            /\ errors_found' = 0
            /\ output_lines' = << >>
            /\ staged_files' = IF args.staged THEN get_staged_files(tool, git_staged)
                               ELSE << >>
            /\ logged' = IF args.staged /\ get_staged_files(tool, git_staged) = << >>
                         THEN Append(logged, Warning("No staged .txt or .yml files found"))
                         ELSE logged
            /\ pc' = "banner"
            /\ UNCHANGED exit_code
    /\ UNCHANGED << tool, args, mod_files, git_staged, write_ok, hash_order, step, console, results,
                    files_read, out_file, run, prev, probe >>

\* run_all_validations up to its first check
RunBanner ==
    /\ pc = "banner"
    /\ LogAll(Banner(~args.no_color,
                     IF tool = "variables"
                     THEN "MILLENNIUM DAWN VARIABLE AND EVENT TARGET VALIDATION"
                     ELSE "MILLENNIUM DAWN SCRIPTED LOCALISATION VALIDATION",
                     args.staged, args.output))
    /\ pc' = "checks"
    /\ step' = 1
    /\ UNCHANGED << tool, args, mod_files, git_staged, write_ok, hash_order, validator, staged_files,
                    errors_found, results, files_read, logged, out_file, exit_code, run, prev,
                    probe >>

\* the files one extraction pass hands to open_text_file, in order
OpenedSeq(scan) == SelectSeq(scan, LAMBDA f : ~should_skip_file(f))
TxtPass == OpenedSeq(TxtFilesToScan(mod_files, staged_files))
YmlPass == OpenedSeq(YmlFilesToScan(mod_files, staged_files))
DefinedLocPass ==
    SelectSeq(OpenedSeq(DefinedLocFilesToScan(mod_files, staged_files)),
              LAMBDA f : ~Contains(f, "00_scripted_localisation_FR_loc"))
UsedLocPass ==
    SelectSeq(OpenedSeq(UsedLocFilesToScan(mod_files, staged_files)),
              LAMBDA f : ~Contains(f, "scripted_localisation"))

\* the warnings open_text_file logs during one pass (the exception text that
\* ends each message is left out)
SkipWarnings(files, pass) ==
    LET failed == SelectSeq(pass, LAMBDA f : ~ReadFile(files, f).ok)
    IN  [k \in 1..Len(failed) |-> Warning("Skipping the file " \o failed[k])]

\* what every check does with its results list: log the section, count the
\* defects, and return to run_all_validations
\* a counter that goes up by one for a check that reported anything
errors_found_per_check(errors, res) == errors + (IF Len(res) > 0 THEN 1 ELSE 0)

\* self.errors_found += len(results) (a check without results adds nothing)
errors_found_after(errors, res) == errors + Len(res)

Finish(check, title, header, notes, ok_text, res, opened, passes) ==
    /\ LogAll(Section(~args.no_color, title, header, notes, ok_text, res))
    /\ errors_found' = errors_found_after(errors_found, res)
    /\ results' = Append(results, [check |-> [kind |-> check.kind,
                                              universe |-> check.universe],
                                   items |-> res])
    /\ files_read' = files_read \cup opened
    /\ logged' = logged \o Flatten([k \in 1..Len(passes) |-> SkipWarnings(mod_files, passes[k])])
    /\ step' = step + 1
    /\ pc' = IF step = Len(Plan) THEN "summary" ELSE "checks"
    /\ UNCHANGED << tool, args, mod_files, git_staged, write_ok, hash_order, validator, staged_files,
                    out_file, exit_code, run, prev, probe >>

AtCheck(kind, universes) ==
    /\ pc = "checks"
    /\ step <= Len(Plan)
    /\ Plan[step].kind = kind
    /\ Plan[step].universe \in universes

TxtOpened == Opened(TxtFilesToScan(mod_files, staged_files))

ValidateClearedFlags ==
    /\ AtCheck("cleared", FlagTypes)
    /\ LET flag_type == Plan[step].universe
       IN  Finish(Plan[step],
                  "Checking cleared " \o flag_type \o " flags that are never set...",
                  "Cleared " \o flag_type \o " flags that are never set were "
                      \o "encountered. Flags with @ are skipped.",
                  << >>,
                  "No issues found with cleared " \o flag_type \o " flags",
                  validate_cleared_flags(mod_files, staged_files, flag_type, Plan[step].fp),
                  TxtOpened,
                  << TxtPass, TxtPass >>)

ValidateMissingFlags ==
    /\ AtCheck("missing", FlagTypes)
    /\ LET flag_type == Plan[step].universe
       IN  Finish(Plan[step],
                  "Checking missing " \o flag_type \o " flags (used but not set)...",
                  "Missing " \o flag_type \o " flags were encountered - they are not "
                      \o "set via 'set_" \o flag_type \o "_flag'. Flags with @ are "
                      \o "skipped.",
                  << >>,
                  "No issues found with missing " \o flag_type \o " flags",
                  validate_missing_flags(mod_files, staged_files, flag_type, Plan[step].fp),
                  TxtOpened,
                  << TxtPass, TxtPass >>)

ValidateUnusedFlags ==
    /\ AtCheck("unused", FlagTypes)
    /\ LET flag_type == Plan[step].universe
       IN  Finish(Plan[step],
                  "Checking unused " \o flag_type \o " flags (set but not used)...",
                  "Unused " \o flag_type \o " flags were encountered - they are not "
                      \o "used via 'has_" \o flag_type \o "_flag' at least once. "
                      \o "Flags with @ are skipped.",
                  << >>,
                  "No issues found with unused " \o flag_type \o " flags",
                  validate_unused_flags(mod_files, staged_files, flag_type, Plan[step].fp),
                  TxtOpened,
                  << TxtPass, TxtPass >>)

ValidateClearedEventTargets ==
    /\ AtCheck("cleared", {"event_target"})
    /\ Finish(Plan[step],
              "Checking cleared event targets that are not set...",
              "Cleared event targets that are not set were encountered.",
              << >>,
              "No issues found with cleared event targets",
              validate_cleared_event_targets(mod_files, staged_files),
              TxtOpened,
              << TxtPass, TxtPass >>)

ValidateMissingEventTargets ==
    /\ AtCheck("missing", {"event_target"})
    /\ Finish(Plan[step],
              "Checking missing event targets (used but not set)...",
              "Used event targets that are not set were encountered.",
              << >>,
              "No issues found with missing event targets",
              validate_missing_event_targets(mod_files, staged_files),
              TxtOpened,
              << TxtPass, TxtPass >>)

ValidateUnusedEventTargets ==
    /\ AtCheck("unused", {"event_target"})
    /\ Finish(Plan[step],
              "Checking unused event targets (set but not used)...",
              "Unused event targets were encountered.",
              << >>,
              "No issues found with unused event targets",
              validate_unused_event_targets(mod_files, staged_files),
              TxtOpened \cup Opened(YmlFilesToScan(mod_files, staged_files)),
              << TxtPass, TxtPass, YmlPass >>)

\* the files the two extractions of a scripted-localisation check open
LocOpened ==
    { f \in Opened(DefinedLocFilesToScan(mod_files, staged_files)) :
        ~Contains(f, "00_scripted_localisation_FR_loc") }
    \cup { f \in Opened(UsedLocFilesToScan(mod_files, staged_files)) :
             ~Contains(f, "scripted_localisation") }

ValidateMissingScriptedLocalisations ==
    /\ AtCheck("missing", {"scripted_localisation"})
    /\ Finish(Plan[step],
              "Checking missing scripted localisations (used but not defined)...",
              "Missing scripted localisations were encountered - they are "
                  \o "referenced but not defined in common/scripted_localisation/.",
              << Warning(Paint(~args.no_color, Colors.YELLOW,
              "Note: Some of these may be regular localisation keys rather "
                  \o "than scripted localisation. Verify manually.")) >>,
              "No issues found with missing scripted localisations",
              validate_missing_scripted_localisations(mod_files, staged_files, hash_order, Plan[step].fp),
              LocOpened,
              << DefinedLocPass, UsedLocPass >>)

ValidateUnusedScriptedLocalisations ==
    /\ AtCheck("unused", {"scripted_localisation"})
    /\ Finish(Plan[step],
              "Checking unused scripted localisations (defined but not used)...",
              "Unused scripted localisations were encountered - they are "
                  \o "defined but not referenced anywhere.",
              << >>,
              "No issues found with unused scripted localisations",
              validate_unused_scripted_localisations(mod_files, staged_files, hash_order, Plan[step].fp),
              LocOpened,
              << DefinedLocPass, UsedLocPass >>)

\* a save_output whose write never fails
save_output_always_writes(output_file, lines, old, can_write) ==
    IF output_file # "" /\ lines # << >>
    THEN [written |-> old.written + 1, text |-> JoinLines(lines)]
    ELSE old

\* Validator.save_output: the file after the call; the write may fail
save_output(output_file, lines, old, can_write) ==
    IF output_file # "" /\ lines # << >> /\ can_write
    THEN [written |-> old.written + 1, text |-> JoinLines(lines)]
    ELSE old

\* what save_output hands to logging (the exception text is left out)
save_output_logging(output_file, lines, can_write) ==
    IF output_file # "" /\ lines # << >>
    THEN IF can_write THEN << Info("Results saved to: " \o output_file) >>
         ELSE << Error("Failed to save output to " \o output_file) >>
    ELSE << >>

\* the final summary, save_output, and the return to main()
FinalSummary ==
    /\ pc = "summary"
    /\ LogAll(Summary(~args.no_color, errors_found))
    /\ out_file' = save_output(args.output, output_lines', out_file, write_ok)
    /\ logged' = logged \o save_output_logging(args.output, output_lines', write_ok)
    /\ pc' = "exit"
    /\ UNCHANGED << tool, args, mod_files, git_staged, write_ok, hash_order, step, validator,
                    staged_files, errors_found, results, files_read, exit_code, run, prev,
                    probe >>

\* sys.exit(...) at the end of main()
Exit ==
    /\ pc = "exit"
    /\ exit_code' = ExitStatus(args.strict, errors_found)
    /\ pc' = "exited"
    /\ UNCHANGED << tool, args, mod_files, git_staged, write_ok, hash_order, step, validator,
                    staged_files, errors_found, output_lines, console, results, files_read,
                    logged, out_file, run, prev, probe >>

\* every set of str the process can build iterates in some order of its names
Perms(S) ==
    { s \in [1..Cardinality(S) -> S] : \A i, j \in 1..Cardinality(S) : s[i] = s[j] => i = j }

\* the names a set of defined localisations can hold
AllNames(files) ==
    UNION { Range(FindAllNamesFrom(files[i].text, 1)) : i \in 1..Len(files) }

\* the script is started again on the unchanged tree with the same command line
Rerun ==
    /\ pc = "exited"
    /\ run = 1
    /\ validator = "constructed"
    /\ prev' = [lines |-> output_lines, console |-> console, errors |-> errors_found,
                code |-> exit_code, order |-> hash_order]
    /\ run' = 2
    /\ hash_order' \in Perms(AllNames(mod_files))
    /\ pc' = "main"
    /\ step' = 0
    /\ validator' = "none"
    /\ staged_files' = << >>
    /\ errors_found' = 0
    /\ output_lines' = << >>
    /\ console' = << >>
    /\ results' = << >>
    /\ files_read' = {}
    /\ logged' = << >>
    /\ exit_code' = -1
    /\ UNCHANGED << tool, args, mod_files, git_staged, write_ok, out_file, probe >>

Checks ==
    \/ ValidateClearedFlags
    \/ ValidateMissingFlags
    \/ ValidateUnusedFlags
    \/ ValidateClearedEventTargets
    \/ ValidateMissingEventTargets
    \/ ValidateUnusedEventTargets
    \/ ValidateMissingScriptedLocalisations
    \/ ValidateUnusedScriptedLocalisations

(***************************************************************************)
(* Harness of DataCleaner.clear_false_positives_partial_match              *)
(***************************************************************************)
ApplyFilter ==
    /\ probe.op = "filter"
    /\ probe.pc = "call"
    /\ probe' = [probe EXCEPT !.pc = "again",
                              !.out = clear_false_positives_partial_match(probe.input,
                                                                          probe.rules)]
    /\ UNCHANGED progVars

ApplyFilterAgain ==
    /\ probe.op = "filter"
    /\ probe.pc = "again"
    /\ probe' = [probe EXCEPT !.pc = "done",
                              !.out2 = clear_false_positives_partial_match(probe.out,
                                                                           probe.rules)]
    /\ UNCHANGED progVars

(***************************************************************************)
(* Harness of should_skip_file                                             *)
(***************************************************************************)
ApplySkip ==
    /\ probe.op = "skip"
    /\ probe.pc = "call"
    /\ probe' = [probe EXCEPT !.pc = "done", !.out = should_skip_file(probe.input)]
    /\ UNCHANGED progVars

(***************************************************************************)
(* Initial states: the trees, command lines and environments drawn         *)
(***************************************************************************)
\* the texts of exactly k lines drawn from `lines`
RECURSIVE TextsOfLen(_, _)
TextsOfLen(lines, k) ==
    IF k = 0 THEN {""}
    ELSE { l \o "\n" \o t : l \in lines, t \in TextsOfLen(lines, k - 1) }

\* the trees over `slots` (Seq of [path, lines]) holding at most n lines in all
RECURSIVE Trees(_, _)
Trees(slots, n) ==
    IF slots = << >> THEN { << >> }
    ELSE UNION { { << [path |-> Head(slots).path, text |-> t, readable |-> TRUE] >> \o rest :
                     t \in TextsOfLen(Head(slots).lines, k),
                     rest \in Trees(Tail(slots), n - k) } : k \in 0..n }

IdleProbe == [op |-> "none", pc |-> "done"]
DefaultArgs == [path |-> "/mod", strict |-> FALSE, output |-> "", no_color |-> TRUE,
                staged |-> FALSE]

\* the start of main() of `which` on one of `trees` with one of `cmdlines`
InitProgram(which, trees, cmdlines, gits, writes) ==
    /\ tool \in which
    /\ args \in cmdlines
    /\ mod_files \in trees
    /\ git_staged \in gits
    /\ write_ok \in writes
    /\ hash_order \in Perms(AllNames(mod_files))
    /\ pc = "main"
    /\ step = 0
    /\ validator = "none"
    /\ staged_files = << >>
    /\ errors_found = 0
    /\ output_lines = << >>
    /\ console = << >>
    /\ results = << >>
    /\ files_read = {}
    /\ logged = << >>
    /\ out_file = [written |-> 0, text |-> ""]
    /\ exit_code = -1
    /\ run = 1
    /\ prev = [lines |-> << >>, console |-> << >>, errors |-> 0, code |-> -1,
               order |-> << >>]

NoGit == { [ok |-> FALSE, names |-> << >>] }

FlagSlots ==
    LET lines == { "set_country_flag = foo",
                   "set_country_flag = foo_bar",
                   "set_country_flag = { flag = foo days = 3 }",
                   "has_country_flag = foo",
                   "has_country_flag = Foo",
                   "modify_country_flag = { flag = foo value = 1 }",
                   "clr_country_flag = foo",
                   "set_global_flag = a@b",
                   "has_global_flag = ghost_flag" }
    IN  << [path |-> "/mod/common/a.txt", lines |-> lines],
           [path |-> "/mod/events/b.txt", lines |-> lines] >>

InitFlags ==
    /\ InitProgram({"variables"}, Trees(FlagSlots, MaxStmts), {DefaultArgs}, NoGit, {TRUE})
    /\ probe = IdleProbe

NextVariables ==
    \/ Main
    \/ RunBanner
    \/ ValidateClearedFlags
    \/ ValidateMissingFlags
    \/ ValidateUnusedFlags
    \/ ValidateClearedEventTargets
    \/ ValidateMissingEventTargets
    \/ ValidateUnusedEventTargets
    \/ FinalSummary
    \/ Exit

\* validate_variables.py on trees of flag statements
SpecFlags == InitFlags /\ [][NextVariables]_vars

TargetSlots ==
    << [path |-> "/mod/common/t.txt",
        lines |-> { "save_event_target_as = Hero",
                    "save_event_target_as = hero",
                    "save_global_event_target_as = Hero",
                    "has_event_target = hero",
                    "clear_global_event_target = Hero" }],
       [path |-> "/mod/localisation/l.yml",
        lines |-> { " greeting: [Hero.GetName] arrives",
                    " title: the [hero.GetAdjective] envoy" }] >>

InitTargets ==
    /\ InitProgram({"variables"}, Trees(TargetSlots, MaxStmts), {DefaultArgs}, NoGit, {TRUE})
    /\ probe = IdleProbe

\* validate_variables.py on trees of event-target statements and localisation
SpecTargets == InitTargets /\ [][NextVariables]_vars

CliSlots ==
    << [path |-> "/mod/common/scripted_localisation/s.txt",
        lines |-> { "set_country_flag = foo", "defined_text = { name = GetFoo }" }] >>

\* the command lines: --path, --strict, --staged, --output, --no-color
CommandLines ==
    [path : {"/mod", "/mod/common/scripted_localisation/s.txt", "/nowhere"},
     strict : BOOLEAN, output : {"", "report.txt"}, no_color : BOOLEAN, staged : BOOLEAN]

\* what `git diff --cached --name-only` answers
GitAnswers ==
    NoGit \cup { [ok |-> TRUE, names |-> << "common/scripted_localisation/s.txt", "notes.md" >>],
                 [ok |-> TRUE, names |-> << "notes.md" >>] }

InitCli ==
    /\ InitProgram({"variables", "scripted_localisation"}, Trees(CliSlots, MaxStmts),
                   CommandLines, GitAnswers, BOOLEAN)
    /\ args.staged \/ git_staged \in NoGit
    /\ args.output # "" \/ write_ok
    /\ probe = IdleProbe

NextAll ==
    \/ Main
    \/ RunBanner
    \/ Checks
    \/ FinalSummary
    \/ Exit

\* either script, started with every command line
SpecCli == InitCli /\ [][NextAll]_vars

TwiceSlots ==
    << [path |-> "/mod/common/a.txt",
        lines |-> { "set_country_flag = foo", "has_country_flag = ghost" }],
       [path |-> "/mod/common/scripted_localisation/s.txt",
        lines |-> { "defined_text = { name = GetFoo }",
                    "defined_text = { name = GetBar }" }],
       [path |-> "/mod/interface/x.gui",
        lines |-> { "text = GetFoo", "text = [getbar]" }] >>

InitTwice ==
    /\ InitProgram({"variables", "scripted_localisation"}, Trees(TwiceSlots, MaxStmts),
                   {DefaultArgs}, NoGit, {TRUE})
    /\ probe = IdleProbe

NextTwice ==
    \/ NextAll
    \/ Rerun

\* either script, run and then run again on the unchanged tree
SpecTwice == InitTwice /\ [][NextTwice]_vars

UnreadableSlots ==
    << [path |-> "/mod/common/a.txt",
        lines |-> { "set_country_flag = foo", "has_country_flag = ghost" }],
       [path |-> "/mod/events/b.txt",
        lines |-> { "set_country_flag = foo", "has_country_flag = ghost" }],
       [path |-> "/mod/common/scripted_localisation/s.txt",
        lines |-> { "defined_text = { name = GetFoo }" }] >>

\* the trees in which any file may fail to open or decode
MaybeUnreadable(trees) ==
    UNION { { [i \in 1..Len(t) |-> [t[i] EXCEPT !.readable = r[i]]] :
                r \in [1..Len(t) -> BOOLEAN] } : t \in trees }

InitUnreadable ==
    /\ InitProgram({"variables", "scripted_localisation"},
                   MaybeUnreadable(Trees(UnreadableSlots, MaxStmts)),
                   {DefaultArgs, [DefaultArgs EXCEPT !.strict = TRUE]}, NoGit, {TRUE})
    /\ probe = IdleProbe

\* either script on trees with files that cannot be read
SpecUnreadable == InitUnreadable /\ [][NextAll]_vars

\* a target whose name holds escape characters, and a plain one
ColorSlots ==
    << [path |-> "/mod/common/t.txt",
        lines |-> { "clear_global_event_target = " \o ESC \o "[" \o ESC \o "[91m91mboom",
                    "clear_global_event_target = Hero" }] >>

InitColors ==
    /\ InitProgram({"variables"}, Trees(ColorSlots, MaxStmts),
                   { [DefaultArgs EXCEPT !.no_color = c, !.output = o] :
                       c \in BOOLEAN, o \in { "", "report.txt" } },
                   NoGit, {TRUE})
    /\ probe = IdleProbe

\* validate_variables.py with and without --no-color and --output
SpecColors == InitColors /\ [][NextVariables]_vars

\* definitions written with one and with two blanks after `name =`
OrderSlots ==
    << [path |-> "/mod/common/a.txt",
        lines |-> { "set_country_flag = foo",
                    "set_country_flag = bar",
                    "save_event_target_as = Hero",
                    "save_event_target_as = Zed" }] >>

InitOrder ==
    /\ InitProgram({"variables"}, Trees(OrderSlots, MaxStmts + 1), {DefaultArgs}, NoGit, {TRUE})
    /\ probe = IdleProbe

\* validate_variables.py on one file that may set a symbol, another, and the
\* first again
SpecOrder == InitOrder /\ [][NextVariables]_vars

RenderSlots ==
    << [path |-> "/mod/common/scripted_localisation/s.txt",
        lines |-> { "set_country_flag = foo",
                    "defined_text = { name = GetFoo }",
                    "defined_text = { name =  GetBar }" }] >>

InitRender ==
    /\ InitProgram({"variables", "scripted_localisation"}, Trees(RenderSlots, MaxStmts),
                   {DefaultArgs, [DefaultArgs EXCEPT !.no_color = FALSE]}, NoGit, {TRUE})
    /\ probe = IdleProbe

\* either script, with and without colours, on located and unlocated defects
SpecRender == InitRender /\ [][NextAll]_vars

\* the symbols and rules handed to the filter
FilterSymbols == { "a", "ab", "b@", "c" }
FilterRules == { "a", "@", "b", "" }

\* the sequences over S of length at most n
SeqsUpTo(S, n) == UNION { [1..k -> S] : k \in 0..n }

\* the lists and the dicts (distinct keys) of at most MaxListLen symbols
FilterInputs ==
    { AsList(l) : l \in SeqsUpTo(FilterSymbols, MaxListLen) }
    \cup { AsDict(d) : d \in { e \in SeqsUpTo([k : FilterSymbols, v : {"f1.txt", "f2.txt"}],
                                               MaxListLen) :
                                 \A i, j \in 1..Len(e) : e[i].k = e[j].k => i = j } }

InitFilter ==
    /\ InitProgram({"variables"}, { << >> }, {DefaultArgs}, NoGit, {TRUE})
    /\ \E input \in FilterInputs, rules \in SeqsUpTo(FilterRules, MaxRules) :
          probe = [op |-> "filter", pc |-> "call", input |-> input, rules |-> rules,
                   out |-> input, out2 |-> input]

NextFilter ==
    \/ ApplyFilter
    \/ ApplyFilterAgain

\* DataCleaner.clear_false_positives_partial_match called on drawn inputs
SpecFilter == InitFilter /\ [][NextFilter]_vars

AliasSlots ==
    << [path |-> "/mod/common/tag_aliases/t.txt",
        lines |-> { "has_event_target = hero",
                    "x = event_target:king",
                    "global_event_target = boss" }],
       [path |-> "/mod/common/a.txt",
        lines |-> { "has_event_target = hero",
                    "x = event_target:king",
                    "save_event_target_as = hero" }] >>

InitAliases ==
    /\ InitProgram({"variables"}, Trees(AliasSlots, MaxStmts), {DefaultArgs}, NoGit, {TRUE})
    /\ probe = IdleProbe

\* validate_variables.py on trees that hold a file of the alias class
SpecAliases == InitAliases /\ [][NextVariables]_vars

LocFileSlots ==
    << [path |-> "/mod/common/scripted_localisation/s1.txt",
        lines |-> { "defined_text = { name = GetFoo_tt }",
                    "defined_text = { name = GetBar }" }],
       [path |-> "/mod/common/scripted_localisation/s2.txt",
        lines |-> { "defined_text = { name = GetBar }",
                    "defined_text = { name = GetZed }" }] >>

InitLocFiles ==
    /\ InitProgram({"scripted_localisation"}, Trees(LocFileSlots, MaxStmts), {DefaultArgs},
                   NoGit, {TRUE})
    /\ probe = IdleProbe

NextScriptedLoc ==
    \/ Main
    \/ RunBanner
    \/ ValidateMissingScriptedLocalisations
    \/ ValidateUnusedScriptedLocalisations
    \/ FinalSummary
    \/ Exit

\* validate_scripted_localisation.py on trees of two definition files
SpecLocFiles == InitLocFiles /\ [][NextScriptedLoc]_vars

SkipSegments == { "gfx", "tools", "resources", "docs", "map", "xgfx", "gfxs", "maps",
                 "common", "a.txt" }

\* paths of one or two segments, with either separator, relative or absolute
SkipPaths ==
    { pre \o a : pre \in { "", "/", "/mod/" }, a \in SkipSegments }
    \cup { pre \o a \o sep \o b : pre \in { "", "/", "/mod/", "C:\\mod\\" },
                                 a \in SkipSegments, sep \in { "/", "\\" },
                                 b \in SkipSegments }

InitSkip ==
    /\ InitProgram({"variables", "scripted_localisation"}, { << >> }, {DefaultArgs}, NoGit,
                   {TRUE})
    /\ \E path \in SkipPaths :
          probe = [op |-> "skip", pc |-> "call", input |-> path, out |-> FALSE]

NextSkip == ApplySkip

\* should_skip_file called on drawn paths
SpecSkip == InitSkip /\ [][NextSkip]_vars

(***************************************************************************)
(* Properties of the reports                                               *)
(***************************************************************************)
Count(seq, x) == Cardinality({ i \in 1..Len(seq) : seq[i] = x })

Universes == FlagTypes \cup { "event_target", "scripted_localisation" }
Kinds == { "cleared", "missing", "unused" }

CheckId(kind, universe) == [kind |-> kind, universe |-> universe]

\* the check has run in this run of the script
HasRun(kind, universe) ==
    \E i \in 1..Len(results) : results[i].check = CheckId(kind, universe)

\* the results list of a check that has run, and the symbols it holds in order
ItemsOf(kind, universe) ==
    results[CHOOSE i \in 1..Len(results) : results[i].check = CheckId(kind, universe)].items
ReportedSyms(kind, universe) == Symbols(ItemsOf(kind, universe))

\* the false-positive rules run_all_validations hands to the check
RulesOf(kind, universe) ==
    (CHOOSE c \in Range(VariablesPlan) \cup Range(ScriptedLocPlan) :
        c.kind = kind /\ c.universe = universe).fp

Survives(sym, rules) == \A j \in 1..Len(rules) : ~Contains(sym, rules[j])

\* the symbols the scanned files hold in a role; scripted localisations are
\* compared lower-cased
RoleSyms(role, universe) ==
    IF universe \in FlagTypes
    THEN Range(Symbols(
             CASE role = "set" -> get_all_set_flags(mod_files, FALSE, universe, staged_files)
               [] role = "used" -> get_all_used_flags(mod_files, FALSE, universe, staged_files)
               [] OTHER -> get_all_cleared_flags(mod_files, FALSE, universe, staged_files)))
    ELSE IF universe = "event_target"
    THEN Range(Symbols(
             CASE role = "set" -> get_all_set_targets(mod_files, FALSE, staged_files)
               [] role = "used" -> get_all_used_targets(mod_files, FALSE, staged_files)
               [] OTHER -> get_all_cleared_targets(mod_files, FALSE, staged_files)))
    ELSE LET defined == Symbols(get_all_defined_localisations(mod_files, FALSE,
                                                              staged_files))
         IN  CASE role = "set" -> Range(LowerAll(defined))
               [] role = "used" ->
                    Range(LowerAll(Symbols(get_all_used_localisations(
                        mod_files, SetIter(hash_order, Range(defined)), FALSE,
                        staged_files))))
               [] OTHER -> {}

\* some scanned localisation file writes the loc-function idiom of target T,
\* in the letter case given / in any letter case
LocIdiomWritten(T) ==
    \E f \in Opened(YmlFilesToScan(mod_files, staged_files)) :
        \/ Contains(open_text_file(mod_files, f, FALSE), "[" \o T \o ".GetName")
        \/ Contains(open_text_file(mod_files, f, FALSE), "[" \o T \o ".GetAdjective")
LocIdiomAnyCase(T) ==
    \E f \in Opened(YmlFilesToScan(mod_files, staged_files)) :
        \/ Contains(open_text_file(mod_files, f, TRUE), Lower("[" \o T \o ".GetName"))
        \/ Contains(open_text_file(mod_files, f, TRUE), Lower("[" \o T \o ".GetAdjective"))

\* the symbols that qualify as defects of a check
Qualifying(kind, universe) ==
    { S \in (CASE kind = "cleared" -> RoleSyms("cleared", universe) \ RoleSyms("set", universe)
               [] kind = "missing" -> RoleSyms("used", universe) \ RoleSyms("set", universe)
               [] OTHER -> RoleSyms("set", universe) \ RoleSyms("used", universe)) :
        /\ Survives(S, RulesOf(kind, universe))
        /\ (kind = "unused" /\ universe = "event_target") => ~LocIdiomAnyCase(S) }

\* C1: in every universe, every symbol that is set or defined, used nowhere and
\* not filtered out appears exactly once in the universe's unused report.
C1_UnusedReportedExactlyOnce ==
    \A u \in Universes :
        HasRun("unused", u) =>
            \A S \in Qualifying("unused", u) : Count(ReportedSyms("unused", u), S) = 1

\* C2: in every universe, every symbol that is used, set or defined nowhere and
\* not filtered out appears exactly once in the universe's missing report.
C2_MissingReportedExactlyOnce ==
    \A u \in Universes :
        HasRun("missing", u) =>
            \A S \in Qualifying("missing", u) : Count(ReportedSyms("missing", u), S) = 1

\* C3: the results list of a check never holds two records of the same symbol.
C3_NoSymbolTwice ==
    \A c \in 1..Len(results) :
        \A a, b \in 1..Len(results[c].items) :
            results[c].items[a].sym = results[c].items[b].sym => a = b

\* C4: a symbol that qualifies as a defect of a check is in the results list of
\* that check whether or not a file and a line are found for it.
C4_DefectNeverDropped ==
    \A kind \in Kinds, u \in Universes :
        HasRun(kind, u) =>
            \A S \in Qualifying(kind, u) : S \in Range(ReportedSyms(kind, u))

\* the defects of all the checks of the run
RECURSIVE SumOfLens(_)
SumOfLens(rs) == IF rs = << >> THEN 0 ELSE Len(Head(rs).items) + SumOfLens(Tail(rs))
TotalDefects == SumOfLens(results)

\* C5: a run on a valid root that reaches its end exits 1 if and only if
\* --strict was given and at least one defect was found, and exits 0 otherwise.
C5_ExitCode ==
    (pc = "exited" /\ PathExists(mod_files, args.path) /\ PathIsDir(mod_files, args.path))
        => exit_code = IF args.strict /\ TotalDefects >= 1 THEN 1 ELSE 0

C5_Witness ==
    /\ pc = "exited"
    /\ validator = "constructed"
    /\ args.strict
    /\ TotalDefects >= 1
    /\ exit_code = 1

\* C6: with a --path that does not exist or is not a directory no Validator is
\* constructed, no file is read, nothing is logged through the report sink, no
\* output file is written, and the exit code is 1, whatever the other options.
C6_PathErrorStopsAtOnce ==
    ~(PathExists(mod_files, args.path) /\ PathIsDir(mod_files, args.path))
        => /\ pc \in { "main", "exited" }
           /\ validator = "none"
           /\ files_read = {}
           /\ console = << >>
           /\ output_lines = << >>
           /\ out_file.written = 0
           /\ pc = "exited" => exit_code = 1

C6_Witness ==
    /\ pc = "exited"
    /\ PathExists(mod_files, args.path)
    /\ ~PathIsDir(mod_files, args.path)
    /\ args.output # ""
    /\ args.staged
    /\ exit_code = 1

\* C7: the filter returns a container of the input's shape that holds exactly
\* the input's entries whose symbol has no rule as a substring, in order and
\* multiplicity, values unchanged; filtering the result again changes nothing.
C7_FilterExactAndIdempotent ==
    (probe.op = "filter" /\ probe.pc \in { "again", "done" })
        => /\ probe.out.shape = probe.input.shape
           /\ probe.out.val =
                SelectSeq(probe.input.val,
                          LAMBDA e : Survives(IF probe.input.shape = "dict" THEN e.k ELSE e,
                                              probe.rules))
           /\ probe.pc = "done" => probe.out2 = probe.out

C7_Witness ==
    /\ probe.op = "filter"
    /\ probe.pc = "done"
    /\ probe.input.shape = "dict"
    /\ Len(probe.input.val) = 2
    /\ Len(probe.out.val) = 1
    /\ probe.out2 = probe.out

C9_LocEscapeHatch ==
    HasRun("unused", "event_target") =>
        \A T \in RoleSyms("set", "event_target") \ RoleSyms("used", "event_target") :
            LocIdiomWritten(T) => T \notin Range(ReportedSyms("unused", "event_target"))

\* where a statement stands in the tree: [file, line], the line 1-indexed
StatementsAt(stmt) ==
    { at \in [file : { RelPath(mod_files[i].path) : i \in 1..Len(mod_files) },
              line : 1..MaxStmts] :
        \E i \in 1..Len(mod_files) :
            /\ RelPath(mod_files[i].path) = at.file
            /\ at.line <= Len(SplitLines(mod_files[i].text))
            /\ SplitLines(mod_files[i].text)[at.line] = stmt }

\* C10: when a file holds `set_country_flag = F` and no file uses F, the
\* unused-country-flags check reports exactly one defect for F, at the file and
\* line of that statement, and the missing-country-flags check reports none.
C10_SetNeverUsedScenario ==
    \A F \in { "foo", "foo_bar" } :
        ( /\ HasRun("unused", "country")
          /\ HasRun("missing", "country")
          /\ StatementsAt("set_country_flag = " \o F) # {}
          /\ \A i \in 1..Len(mod_files) :
                ~Contains(mod_files[i].text, "has_country_flag = " \o F)
          /\ F \notin RoleSyms("used", "country") )
        => /\ Count(ReportedSyms("unused", "country"), F) = 1
           /\ \A i \in 1..Len(ItemsOf("unused", "country")) :
                 ItemsOf("unused", "country")[i].sym = F =>
                    [file |-> ItemsOf("unused", "country")[i].file,
                     line |-> ItemsOf("unused", "country")[i].line]
                        \in StatementsAt("set_country_flag = " \o F)
           /\ F \notin Range(ReportedSyms("missing", "country"))

\* C11: a cleared-but-not-set check reports a symbol only if a Clear-role
\* statement holds it and no Set-role statement does; a global flag that is only
\* used yields one missing-flags defect and no cleared-but-not-set defect.
C11_ClearedOnlyIfClearedNeverSet ==
    /\ \A u \in FlagTypes \cup { "event_target" } :
          HasRun("cleared", u) =>
              \A S \in Range(ReportedSyms("cleared", u)) :
                  S \in RoleSyms("cleared", u) /\ S \notin RoleSyms("set", u)
    /\ ( /\ HasRun("cleared", "global")
         /\ HasRun("missing", "global")
         /\ "ghost_flag" \in RoleSyms("used", "global")
         /\ "ghost_flag" \notin RoleSyms("set", "global")
         /\ "ghost_flag" \notin RoleSyms("cleared", "global") )
       => /\ Count(ReportedSyms("missing", "global"), "ghost_flag") = 1
          /\ Count(ReportedSyms("cleared", "global"), "ghost_flag") = 0

\* C12: with --staged, whatever git answers, every file an extraction pass
\* opens is one of the staged files that pass the extension filter.
C12_StagedNarrowsCorpus ==
    (args.staged /\ validator = "constructed")
        => files_read \subseteq Range(get_staged_files(tool, git_staged))

\* the tree without the files that cannot be read
ReadableOnly(files) == SelectSeq(files, LAMBDA f : f.readable)

\* the results list a check computes on a tree
ResultsOn(check, files) ==
    CASE check.universe \in FlagTypes /\ check.kind = "cleared" ->
            validate_cleared_flags(files, staged_files, check.universe,
                                   RulesOf(check.kind, check.universe))
      [] check.universe \in FlagTypes /\ check.kind = "missing" ->
            validate_missing_flags(files, staged_files, check.universe,
                                   RulesOf(check.kind, check.universe))
      [] check.universe \in FlagTypes /\ check.kind = "unused" ->
            validate_unused_flags(files, staged_files, check.universe,
                                  RulesOf(check.kind, check.universe))
      [] check.universe = "event_target" /\ check.kind = "cleared" ->
            validate_cleared_event_targets(files, staged_files)
      [] check.universe = "event_target" /\ check.kind = "missing" ->
            validate_missing_event_targets(files, staged_files)
      [] check.universe = "event_target" /\ check.kind = "unused" ->
            validate_unused_event_targets(files, staged_files)
      [] check.universe = "scripted_localisation" /\ check.kind = "missing" ->
            validate_missing_scripted_localisations(files, staged_files, hash_order,
                                                    FALSE_POSITIVES_LOC)
      [] OTHER ->
            validate_unused_scripted_localisations(files, staged_files, hash_order,
                                                   FALSE_POSITIVES_LOC)

\* C13: a file that cannot be read contributes no occurrence and a warning:
\* the check that has just run reports what it reports on the tree without
\* that file, every such file an extraction opened has its warning, and the run ends with the
\* exit code its defect count gives.
C13_UnreadableFileIsSkipped ==
    /\ results # << >> =>
          results[Len(results)].items =
              ResultsOn(results[Len(results)].check, ReadableOnly(mod_files))
    /\ \A f \in files_read :
          ~ReadFile(mod_files, f).ok =>
              Warning("Skipping the file " \o f) \in Range(logged)
    /\ pc = "exited" =>
          exit_code = IF args.strict /\ TotalDefects >= 1 THEN 1 ELSE 0

C13_Witness ==
    /\ pc = "exited"
    /\ \E i \in 1..Len(mod_files) :
          /\ mod_files[i].path \in files_read
          /\ ~mod_files[i].readable
          /\ mod_files[i].text # ""
    /\ TotalDefects >= 1
    /\ exit_code = 1

\* the lines the final summary stores for the output file
SummaryLines ==
    [i \in 1..3 |-> StripAnsi(Summary(~args.no_color, errors_found)[i].msg)]

\* C14: when the --output file cannot be written, the final summary step
\* leaves the defect count alone, stores the summary lines and nothing else,
\* logs the failure as an error and writes no file; the run then exits with the
\* code --strict and the defect count give.
C14_WriteFailureRecovered ==
    /\ []((pc = "exited" /\ validator = "constructed" /\ args.output # "" /\ ~write_ok)
            => /\ errors_found = TotalDefects
               /\ exit_code = (IF args.strict /\ TotalDefects >= 1 THEN 1 ELSE 0)
               /\ out_file.written = 0)
    /\ [][(pc = "summary" /\ args.output # "" /\ ~write_ok)
            => /\ errors_found' = errors_found
               /\ output_lines' = output_lines \o SummaryLines
               /\ logged' = Append(logged, Error("Failed to save output to " \o args.output))
               /\ out_file' = out_file]_vars

C14_Witness ==
    /\ pc = "exited"
    /\ args.output # ""
    /\ ~write_ok
    /\ args.strict
    /\ TotalDefects >= 1
    /\ exit_code = 1
    /\ Error("Failed to save output to " \o args.output) \in Range(logged)

\* the text holds an ANSI colour escape sequence: ESC [ (digits or ;)+ m
HasAnsi(text) ==
    \E i \in 1..(Len(text) - 3) :
        /\ SubSeq(text, i, i + 1) = ESC \o "["
        /\ LET e == RunEnd(text, i + 2,
                           ClassOf({ CharAt(DigitChars, d) : d \in 1..10 } \cup { ";" }))
           IN  e >= i + 2 /\ e < Len(text) /\ CharAt(text, e + 1) = "m"

\* C15: with --no-color no message the report sink sends to the console holds
\* an ANSI escape sequence, and no line stored for the output file ever does.
C15_NoAnsiWhenNoColor ==
    /\ args.no_color => \A i \in 1..Len(console) : ~HasAnsi(console[i].msg)
    /\ \A i \in 1..Len(output_lines) : ~HasAnsi(output_lines[i])

\* the stored lines of the section logged last: those after the last title rule
LastRuleAt == Max0({ i \in 1..Len(output_lines) : output_lines[i] = Rule("=") })
SectionBody == SubSeq(output_lines, LastRuleAt + 1, Len(output_lines))

\* the line a defect is to be rendered as (indented by two blanks)
Rendered(r) ==
    "  " \o r.file \o (IF r.line > 0 THEN ":" \o ToString(r.line) ELSE "")
    \o " - " \o r.sym

\* C16: in the section a check has just logged, the indented lines are the
\* defects of its results list, one line each and in order, `file:line - symbol`
\* when the line is known and `file - symbol` when it is 0, and their number is
\* the issue count the section prints.
C16_DefectLines ==
    (pc \in { "checks", "summary" } /\ results # << >>)
        => LET res == results[Len(results)].items
           IN  /\ SelectSeq(SectionBody, LAMBDA l : StartsWith(l, "  ")) =
                      [k \in 1..Len(res) |-> Rendered(res[k])]
               /\ Len(res) > 0 =>
                      SectionBody[Len(SectionBody)] = ToString(Len(res)) \o " issues found"

C16_Witness ==
    /\ pc = "summary"
    /\ tool = "scripted_localisation"
    /\ ~args.no_color
    /\ Len(results[Len(results)].items) = 2
    /\ \E a, b \in 1..2 : /\ results[Len(results)].items[a].line = 0
                          /\ results[Len(results)].items[b].line > 0

\* the messages the report sink was handed so far, as plain text, one per line
Transcript ==
    IF console = << >> THEN ""
    ELSE LET plain == [i \in 1..Len(console) |-> StripAnsi(console[i].msg)]
             RECURSIVE Joined(_)
             Joined(n) == IF n = 1 THEN plain[1] ELSE Joined(n - 1) \o "\n" \o plain[n]
         IN  Joined(Len(console))

\* C17: no file is written without --output, nor before the final summary has
\* been logged; with --output (and a write that succeeds) the file is written
\* once, after the summary, and holds every message handed to the report sink
\* during the run, as plain text, in logging order, joined by newlines.
C17_OutputFileIsTheTranscript ==
    /\ (args.output = "" \/ validator = "none" \/ pc \notin { "exit", "exited" })
          => out_file.written = 0
    /\ (args.output # "" /\ write_ok /\ validator = "constructed"
        /\ pc \in { "exit", "exited" })
          => /\ out_file.written = 1
             /\ out_file.text = Transcript
             /\ SubSeq(output_lines, Len(output_lines) - 2, Len(output_lines)) = SummaryLines

C17_Witness ==
    /\ pc = "exited"
    /\ args.output # ""
    /\ write_ok
    /\ ~args.no_color
    /\ TotalDefects >= 1
    /\ out_file.written = 1
    /\ Len(out_file.text) > 0

\* the role a check compares its candidates with
ComplementRole(kind) == IF kind = "unused" THEN "used" ELSE "set"

\* C18: in every check the defect test compares lower-cased forms: no reported
\* symbol equals, after lower-casing both, a symbol of the complementary
\* occurrence set (a flag used as Foo and set as foo is not a missing flag).
C18_ComparedLowerCased ==
    \A kind \in Kinds, u \in Universes :
        HasRun(kind, u) =>
            \A S \in Range(ReportedSyms(kind, u)) :
                \A T \in RoleSyms(ComplementRole(kind), u) : Lower(T) # Lower(S)

\* the occurrences of the candidate role of a check, whose paths dict the check
\* reads the basename of a defect from
CandidateOcc(kind, universe) ==
    IF universe \in FlagTypes
    THEN CASE kind = "cleared" -> get_all_cleared_flags(mod_files, FALSE, universe, staged_files)
           [] kind = "missing" -> get_all_used_flags(mod_files, FALSE, universe, staged_files)
           [] OTHER -> get_all_set_flags(mod_files, FALSE, universe, staged_files)
    ELSE IF universe = "event_target"
    THEN CASE kind = "cleared" -> get_all_cleared_targets(mod_files, FALSE, staged_files)
           [] kind = "missing" -> get_all_used_targets(mod_files, FALSE, staged_files)
           [] OTHER -> get_all_set_targets(mod_files, FALSE, staged_files)
    ELSE LET defined == get_all_defined_localisations(mod_files, FALSE, staged_files)
         IN  IF kind = "unused" THEN defined
             ELSE get_all_used_localisations(
                      mod_files, SetIter(hash_order, Range(Symbols(defined))), FALSE,
                      staged_files)

\* the basename of the first occurrence of a symbol
FirstBase(occ, sym) ==
    occ[CHOOSE i \in 1..Len(occ) :
            /\ occ[i].sym = sym
            /\ \A j \in 1..Len(occ) : occ[j].sym = sym => i <= j].base

\* C19: the symbol-to-file map of an extraction gives every symbol the first
\* scanned file in which it matched; later matches never overwrite it.
C19_FirstFileKept ==
    \A kind \in Kinds, u \in Universes :
        HasRun(kind, u) =>
            \A S \in PathsKeys(CandidateOcc(kind, u)) :
                PathsGet(CandidateOcc(kind, u), S) = FirstBase(CandidateOcc(kind, u), S)

\* the candidate list of a check in the form the check reports its symbols in
CandidateSyms(kind, universe) ==
    IF universe = "scripted_localisation"
    THEN LowerAll(Symbols(CandidateOcc(kind, universe)))
    ELSE Symbols(CandidateOcc(kind, universe))

\* the position at which a symbol is first encountered in a list, 0 if nowhere
FirstAt(seq, sym) == MinOr0({ i \in 1..Len(seq) : seq[i] = sym })

\* the reported symbols follow the order of first encounter in the candidates
InFirstEncounterOrder(rep, cand) ==
    /\ \A i \in 1..Len(rep) : FirstAt(cand, rep[i]) > 0
    /\ \A i, j \in 1..Len(rep) :
           i < j => FirstAt(cand, rep[i]) <= FirstAt(cand, rep[j])

\* the reported symbols are the candidates with some left out, nothing moved
RECURSIVE IsSubsequence(_, _)
IsSubsequence(rep, cand) ==
    IF rep = << >> THEN TRUE
    ELSE IF cand = << >> THEN FALSE
    ELSE IF Head(rep) = Head(cand) THEN IsSubsequence(Tail(rep), Tail(cand))
    ELSE IsSubsequence(rep, Tail(cand))

\* C20: within one check the defects are emitted in the order in which their
\* symbols were first encountered in the candidate list, never reordered.
C20_EmittedInFirstEncounterOrder ==
    \A kind \in Kinds, u \in Universes :
        HasRun(kind, u) =>
            InFirstEncounterOrder(ReportedSyms(kind, u), CandidateSyms(kind, u))

\* what holds of the order whatever the candidate list repeats: the reported
\* symbols are a subsequence of the candidate list
EmittedInCandidateOrder ==
    \A kind \in Kinds, u \in Universes :
        HasRun(kind, u) =>
            IsSubsequence(ReportedSyms(kind, u), CandidateSyms(kind, u))


\* the segments of a path that are followed by "/"
RECURSIVE DirSegments(_, _)
DirSegments(path, cur) ==
    IF path = "" THEN {}
    ELSE IF Head(path) = "/" THEN { cur } \cup DirSegments(Tail(path), "")
    ELSE DirSegments(Tail(path), cur \o Head(path))

UseFormsIn(filename) ==
    LET text == open_text_file(mod_files, filename, FALSE)
    IN  Range(re_findall("event_target:", TargetToken, text))
        \cup Range(re_findall("has_event_target = ", HasTargetToken, text))
        \cup (IF Contains(filename, "tag_aliases")
              THEN Range(re_findall("global_event_target = ", TargetToken, text))
              ELSE {})

\* C22: the event-target use extraction takes event_target:T and
\* has_event_target = T from every scanned file, and global_event_target = T
\* in addition from the files whose path contains tag_aliases.
C22_UseFormsOfEveryFile ==
    HasRun("missing", "event_target") =>
        \A f \in Opened(TxtFilesToScan(mod_files, staged_files)) :
            UseFormsIn(f) \subseteq RoleSyms("used", "event_target")


\* the characters that end a symbol: whitespace, braces, quote, comment marker
Terminators == { " ", "\t", "\n", "{", "}", "\"", "#" }

HasTerminator(sym) == \E i \in 1..Len(sym) : CharAt(sym, i) \in Terminators

\* C23: every symbol a flag or event-target extraction returns ends at the
\* first whitespace, brace, quote or comment marker: none holds a space, tab,
\* newline, brace, double quote or # character.
C23_SymbolsEndAtTerminator ==
    validator = "constructed" =>
        \A u \in FlagTypes \cup { "event_target" }, role \in { "set", "used", "cleared" } :
            \A S \in RoleSyms(role, u) : ~HasTerminator(S)


\* the basenames of the files in which an extraction matched the symbol, in
\* the casing given or any other
BasesOf(occ, sym) == { occ[i].base : i \in { k \in 1..Len(occ) : Lower(occ[k].sym) = sym } }

\* C24: the file of every defect of a scripted-localisation check is a file
\* the symbol-to-basename map can record for that symbol, one in which the
\* symbol was extracted, also when the filter has removed other candidates.
C24_LocDefectFileIsOfItsSymbol ==
    \A kind \in { "missing", "unused" } :
        HasRun(kind, "scripted_localisation") =>
            \A k \in 1..Len(ItemsOf(kind, "scripted_localisation")) :
                Basename(ItemsOf(kind, "scripted_localisation")[k].file)
                    \in BasesOf(CandidateOcc(kind, "scripted_localisation"),
                                ItemsOf(kind, "scripted_localisation")[k].sym)


\* the defect lines stored so far: the only lines that open with two blanks
DefectLinesEmitted ==
    Cardinality({ i \in 1..Len(output_lines) : StartsWith(output_lines[i], "  ") })

WrittenSyms(kind, universe) == Range(Symbols(CandidateOcc(kind, universe)))

\* C26: case folding is used for matching only: the symbol of every defect
\* line is a symbol in the casing in which the source file writes it, in
\* every check, the scripted-localisation checks included.
C26_DefectShowsOriginalCasing ==
    \A kind \in Kinds, u \in Universes :
        HasRun(kind, u) => Range(ReportedSyms(kind, u)) \subseteq WrittenSyms(kind, u)


\* the probe string of a flag check for a symbol
RoleStatement(kind, flag_type, sym) ==
    (CASE kind = "cleared" -> "clr_" [] kind = "missing" -> "has_" [] OTHER -> "set_")
    \o flag_type \o "_flag = " \o sym

\* text holds stmt ended by a token terminator or by the end of the text
HoldsExactly(text, stmt) ==
    \E i \in 1..(Len(text) - Len(stmt) + 1) :
        /\ SubSeq(text, i, i + Len(stmt) - 1) = stmt
        /\ \/ i + Len(stmt) > Len(text)
           \/ CharAt(text, i + Len(stmt)) \in Terminators

\* the lines of the file a defect is attributed to
LinesOfReported(file) == SplitLines(ReadFile(mod_files, mod_path \o file).text)

\* C27: a flag defect reported with a line number stands on a line that holds
\* the role statement of exactly that symbol, the symbol ended by a token
\* terminator, not a statement of a longer symbol of which it is a prefix; the
\* file chosen for the defect holds such a statement too.
C27_LineHoldsStatementOfSymbol ==
    \A kind \in Kinds, u \in FlagTypes :
        HasRun(kind, u) =>
            \A k \in 1..Len(ItemsOf(kind, u)) :
                /\ ItemsOf(kind, u)[k].line > 0
                      => HoldsExactly(
                             LinesOfReported(ItemsOf(kind, u)[k].file)[ItemsOf(kind, u)[k].line],
                             RoleStatement(kind, u, ItemsOf(kind, u)[k].sym))
                /\ \E n \in 1..Len(LinesOfReported(ItemsOf(kind, u)[k].file)) :
                       HoldsExactly(LinesOfReported(ItemsOf(kind, u)[k].file)[n],
                                    RoleStatement(kind, u, ItemsOf(kind, u)[k].sym))


C29_MissingAndUnusedDisjoint ==
    \A u \in Universes :
        (HasRun("missing", u) /\ HasRun("unused", u))
            => Range(ReportedSyms("missing", u)) \cap Range(ReportedSyms("unused", u)) = {}

C29_Witness ==
    /\ HasRun("missing", "country")
    /\ HasRun("unused", "country")
    /\ "Foo" \in Range(ReportedSyms("missing", "country"))
    /\ "foo" \in Range(ReportedSyms("unused", "country"))


\* the candidate list of a flag or event-target check after its filter
FilteredCandidates(kind, universe) ==
    FilterList(Symbols(CandidateOcc(kind, universe)), RulesOf(kind, universe))

\* every symbol of the list and of the filtered list is a key of the map
LookupsCovered(occ, rules) ==
    /\ Range(Symbols(occ)) \subseteq PathsKeys(occ)
    /\ Range(FilterList(Symbols(occ), rules)) \subseteq PathsKeys(occ)

====
